---- MODULE Spec2Model ----
(***************************************************************************)
(* California Urban Opportunity Index: the two dashboard scripts           *)
(* app_ca.py and src/cali.py, modelled as one sequential pipeline          *)
(*   read table -> fips column -> prefix repair -> weights -> z-scores     *)
(*   -> UOI_custom -> (app_ca.py only) exclusion of fips 06003.            *)
(* Strings are sequences of one-character strings.  Numbers are exact:     *)
(* a float is a rational, a z-score is a rational times the square root of *)
(* a rational, NaN is a value of its own.                                  *)
(***************************************************************************)
EXTENDS Integers, Sequences, FiniteSets, TLC

VARIABLES app, pc, csv, widgets, df, w, err, zrows

vars == <<app, pc, csv, widgets, df, w, err, zrows>>

(***************************************************************************)
(* Bounds of the model.                                                    *)
(***************************************************************************)
MaxRecords == 2
MaxRaw == 2
MaxIdLen == 5
SliderSteps == 1

(***************************************************************************)
(* Python strings.                                                         *)
(***************************************************************************)
LowerLetters == <<"a","b","c","d","e","f","g","h","i","j","k","l","m",
                  "n","o","p","q","r","s","t","u","v","w","x","y","z">>
UpperLetters == <<"A","B","C","D","E","F","G","H","I","J","K","L","M",
                  "N","O","P","Q","R","S","T","U","V","W","X","Y","Z">>

UpperChar(c) ==
    IF \E i \in 1..Len(LowerLetters) : LowerLetters[i] = c
    THEN UpperLetters[CHOOSE i \in 1..Len(LowerLetters) : LowerLetters[i] = c]
    ELSE c

\* str.upper()
Upper(s) == [i \in 1..Len(s) |-> UpperChar(s[i])]

RECURSIVE LStrip(_)
LStrip(s) == IF s # <<>> /\ Head(s) = " " THEN LStrip(Tail(s)) ELSE s

RECURSIVE RStrip(_)
RStrip(s) ==
    IF s # <<>> /\ s[Len(s)] = " " THEN RStrip(SubSeq(s, 1, Len(s) - 1)) ELSE s

\* str.strip()
Strip(s) == RStrip(LStrip(s))

\* str.startswith(p)
StartsWith(s, p) == Len(s) >= Len(p) /\ SubSeq(s, 1, Len(p)) = p

\* the slice x[-3:]
LastThree(s) == IF Len(s) <= 3 THEN s ELSE SubSeq(s, Len(s) - 2, Len(s))

ZfillWidth == 5

RECURSIVE Zfill(_, _)
\* Series.str.zfill(width): pad on the left with "0" up to width characters
Zfill(s, width) == IF Len(s) >= width THEN s ELSE Zfill(<<"0">> \o s, width)

\* Python's None, as a cell of an object column
PyNone == <<"<None>">>

\* Series.astype(str) on one cell: str(None) is the four characters None
AsStr(cell) == IF cell = PyNone THEN <<"N","o","n","e">> ELSE cell

StatePrefix == <<"0","6">>

(***************************************************************************)
(* The reference boundary dataset (geojson-counties-fips.json), as fetched *)
(* for the whole country, and its filter to the features whose id starts   *)
(* with "06".                                                              *)
(***************************************************************************)
GeoJsonFeatures ==
    << [id |-> <<"1","2","0","9","5">>, NAME |-> <<"O","r","a","n","g","e">>,
        STATEFP |-> <<"1","2">>, COUNTYFP |-> <<"0","9","5">>],
       [id |-> <<"0","6","0","0","1">>, NAME |-> <<"A","l","a","m","e","d","a">>,
        STATEFP |-> <<"0","6">>, COUNTYFP |-> <<"0","0","1">>],
       [id |-> <<"0","6","0","0","3">>, NAME |-> <<"A","l","p","i","n","e">>,
        STATEFP |-> <<"0","6">>, COUNTYFP |-> <<"0","0","3">>],
       [id |-> <<"0","6","0","5","9">>, NAME |-> <<"O","r","a","n","g","e">>,
        STATEFP |-> <<"0","6">>, COUNTYFP |-> <<"0","5","9">>] >>

IsCalifornia(feat) == StartsWith(feat.id, StatePrefix)

counties == SelectSeq(GeoJsonFeatures, IsCalifornia)

\* fips_lookup: the first feature whose upper-cased NAME is the stripped,
\* upper-cased county name; None when there is none
fips_lookup(county_name) ==
    LET name == Upper(Strip(county_name))
        hits == {i \in 1..Len(counties) : Upper(counties[i].NAME) = name}
    IN  IF hits = {} THEN PyNone
        ELSE LET first == CHOOSE i \in hits : \A j \in hits : i <= j
             IN  counties[first].STATEFP \o counties[first].COUNTYFP

(***************************************************************************)
(* Data frames: a function from column names to columns, each column a     *)
(* sequence of cells, one per row.                                         *)
(***************************************************************************)
NRows(frame) == Len(frame["County"])

Rows(frame) == 1..NRows(frame)

HasCol(frame, col) == col \in DOMAIN frame

\* df[col] = values
SetCol(frame, col, values) ==
    [c \in DOMAIN frame \cup {col} |-> IF c = col THEN values ELSE frame[c]]

\* df[mask]: the rows where the boolean column mask holds, in every column
FilterRows(frame, mask) ==
    LET kept == SelectSeq([i \in Rows(frame) |-> i], LAMBDA i : mask[i])
    IN  [c \in DOMAIN frame |-> [k \in 1..Len(kept) |-> frame[c][kept[k]]]]

\* the index labels of the rows of a frame
Index(frame) == {frame["index"][k] : k \in 1..Len(frame["index"])}

ExcludedFips == <<"0","6","0","0","3">>

\* df["fips"] != "06003"
NotExcluded(frame) == [i \in Rows(frame) |-> frame["fips"][i] # ExcludedFips]

\* (mutant) the zero padding left out
ZfillCellSkip(cell) == AsStr(cell)

ZfillCell(cell) == Zfill(AsStr(cell), ZfillWidth)

\* which column the fips column is built from
FipsSource(a, frame) ==
    IF a = "app_ca" /\ HasCol(frame, "GEOID") THEN "GEOID"
    ELSE IF HasCol(frame, "fips") THEN "fips"
    ELSE "County"

\* app_ca.py 46-58, cali.py 29-37: the fips column as zero-padded strings
FipsColumn(a, frame) ==
    LET src == FipsSource(a, frame)
    IN  IF src = "County"
        THEN [i \in Rows(frame) |-> ZfillCell(fips_lookup(frame["County"][i]))]
        ELSE [i \in Rows(frame) |-> ZfillCell(frame[src][i])]

\* (mutant) the slice x[:3] in place of x[-3:]
RepairPrefixHead(x) ==
    IF StartsWith(x, StatePrefix) THEN x
    ELSE StatePrefix \o SubSeq(x, 1, IF Len(x) < 3 THEN Len(x) ELSE 3)

\* lambda x: x if x.startswith("06") else "06" + x[-3:]
RepairPrefix(x) == IF StartsWith(x, StatePrefix) THEN x ELSE StatePrefix \o LastThree(x)

EnsureFips ==
    /\ pc = "fips"
    /\ df' = SetCol(df, "fips", FipsColumn(app, df))
    /\ pc' = "repair"
    /\ UNCHANGED <<app, csv, widgets, w, err, zrows>>

NormalizeFips ==
    /\ pc = "repair"
    /\ df' = SetCol(df, "fips", [i \in Rows(df) |-> RepairPrefix(df["fips"][i])])
    /\ pc' = "weights"
    /\ UNCHANGED <<app, csv, widgets, w, err, zrows>>

(***************************************************************************)
(* Exact arithmetic.  A rational is <<numerator, denominator>> in lowest   *)
(* terms with a positive denominator.                                      *)
(***************************************************************************)
Abs(x) == IF x < 0 THEN -x ELSE x

RECURSIVE GCD(_, _)
GCD(a, b) == IF b = 0 THEN a ELSE GCD(b, a % b)

Rat(n, d) ==
    LET g == GCD(Abs(n), Abs(d))
        s == IF d < 0 THEN -1 ELSE 1
    IN  <<(s * n) \div g, (s * d) \div g>>

RatAdd(a, b) == Rat(a[1] * b[2] + b[1] * a[2], a[2] * b[2])
RatSub(a, b) == Rat(a[1] * b[2] - b[1] * a[2], a[2] * b[2])
RatMul(a, b) == Rat(a[1] * b[1], a[2] * b[2])
RatDiv(a, b) == Rat(a[1] * b[2], a[2] * b[1])
RatNeg(a) == <<-a[1], a[2]>>
RatLt(a, b) == a[1] * b[2] < b[1] * a[2]
RatZero == <<0, 1>>
RatOne == <<1, 1>>

RECURSIVE RatSum(_)
\* sum(list), left to right from 0
RatSum(xs) == IF xs = <<>> THEN RatZero
              ELSE RatAdd(RatSum(SubSeq(xs, 1, Len(xs) - 1)), xs[Len(xs)])

(***************************************************************************)
(* Sidebar: preset selection and weight normalization.                     *)
(***************************************************************************)
NIndicators == 9

Presets == {"Even", "Income-heavy", "Education-heavy",
            "Equity-focused", "Stability-focused", "Custom"}

\* a decimal literal written in twentieths
P(n) == Rat(n, 20)

\* the list w the if/elif chain assigns (app_ca.py 72-90, cali.py 46-62)
PresetWeights(wd) ==
    CASE wd.preset = "Even" -> [i \in 1..NIndicators |-> Rat(1, 9)]
      [] wd.preset = "Income-heavy" ->
            <<P(8), P(2), P(2), P(2), P(2), P(1), P(1), P(1), P(1)>>
      [] wd.preset = "Education-heavy" ->
            <<P(2), P(8), P(2), P(2), P(2), P(1), P(1), P(1), P(1)>>
      [] wd.preset = "Equity-focused" ->
            <<P(1), P(1), P(6), P(1), P(2), P(1), P(4), P(2), P(2)>>
      [] wd.preset = "Stability-focused" ->
            <<P(1), P(1), P(1), P(1), P(4), P(1), P(2), P(6), P(3)>>
      [] OTHER -> wd.sliders

\* (mutant) the weights left as selected
NormalizedSkip(ws, total_w) == ws

\* w = [wi/total_w for wi in w]
Normalized(ws, total_w) == [i \in 1..Len(ws) |-> RatDiv(ws[i], total_w)]

SelectPreset ==
    /\ pc = "weights"
    /\ w' = PresetWeights(widgets)
    /\ pc' = "normalize"
    /\ UNCHANGED <<app, csv, widgets, df, err, zrows>>

\* (mutant) a zero total replaced by 1 instead of raising
NormalizeWeightsGuarded ==
    /\ pc = "normalize"
    /\ LET total_w == IF RatSum(w) = RatZero THEN RatOne ELSE RatSum(w)
       IN  w' = Normalized(w, total_w)
    /\ pc' = "zscore"
    /\ UNCHANGED <<app, csv, widgets, df, err, zrows>>

\* total_w = sum(w); dividing a float by 0.0 raises ZeroDivisionError and the
\* script run ends there
NormalizeWeights ==
    /\ pc = "normalize"
    /\ LET total_w == RatSum(w)
       IN  IF total_w = RatZero
           THEN /\ pc' = "error"
                /\ err' = "ZeroDivisionError"
                /\ w' = w
           ELSE /\ w' = Normalized(w, total_w)
                /\ pc' = "zscore"
                /\ err' = err
    /\ UNCHANGED <<app, csv, widgets, df, zrows>>

(***************************************************************************)
(* Z-score columns.  A cell of a numeric column is NaN or a rational; a    *)
(* z-score is NaN or coef * sqrt(rad) with coef and rad rationals.         *)
(***************************************************************************)
NaN == [kind |-> "nan"]
Num(q) == [kind |-> "num", val |-> q]
Surd(coef, rad) == [kind |-> "surd", coef |-> coef, rad |-> rad]

IsNaN(x) == x.kind = "nan"

IndicatorCols ==
    <<"Median_Household_Income", "Bachelors_Degree_Pct", "Unemployment_Rate",
      "No_Health_Insurance_Pct", "Median_Gross_Rent", "Broadband_Pct",
      "High_School_Grad_Pct", "Upward_Mobility", "Gini_Index">>

\* (mutant) unemployment left out of the inverted columns
InvertedColsNoUnemployment == {"No_Health_Insurance_Pct", "Median_Gross_Rent", "Gini_Index"}

\* the columns whose z-score is negated
InvertedCols == {"Unemployment_Rate", "No_Health_Insurance_Pct",
                 "Median_Gross_Rent", "Gini_Index"}

ZName(col) == "Z_" \o col

\* the values a reduction sees: pandas skips NaN (skipna=True)
Present(column) == SelectSeq(column, LAMBDA x : ~IsNaN(x))

Values(cells) == [i \in 1..Len(cells) |-> cells[i].val]

\* Series.mean()
ColMean(column) ==
    LET xs == Values(Present(column))
    IN  IF xs = <<>> THEN NaN ELSE Num(RatDiv(RatSum(xs), <<Len(xs), 1>>))

\* Series.std() is called without arguments: pandas' default ddof
Ddof == 1

\* (mutant) the population variance: the divisor is count, as with ddof=0
ColVarPopulation(column) ==
    LET xs == Values(Present(column))
        m  == ColMean(column)
        sq == [i \in 1..Len(xs) |->
                  RatMul(RatSub(xs[i], m.val), RatSub(xs[i], m.val))]
    IN  IF Len(xs) <= 0 THEN NaN
        ELSE Num(RatDiv(RatSum(sq), <<Len(xs), 1>>))

\* the square of Series.std(): sum((x - mean)^2) / (count - ddof), NaN when
\* count - ddof <= 0
ColVar(column) ==
    LET xs == Values(Present(column))
        m  == ColMean(column)
        sq == [i \in 1..Len(xs) |->
                  RatMul(RatSub(xs[i], m.val), RatSub(xs[i], m.val))]
    IN  IF Len(xs) - Ddof <= 0 THEN NaN
        ELSE Num(RatDiv(RatSum(sq), <<Len(xs) - Ddof, 1>>))

\* (mutant) a zero standard deviation guarded into a z-score of 0
StandardizeZeroGuard(x, m, var) ==
    IF IsNaN(x) \/ IsNaN(m) \/ IsNaN(var) THEN NaN
    ELSE IF var.val = RatZero THEN Surd(RatZero, RatOne)
    ELSE Surd(RatSub(x.val, m.val), RatDiv(RatOne, var.val))

\* (x - mean) / std for one cell, std = sqrt(var).  With std = 0 every present
\* x equals the mean and the quotient is 0.0 / 0.0 = NaN
Standardize(x, m, var) ==
    IF IsNaN(x) \/ IsNaN(m) \/ IsNaN(var) THEN NaN
    ELSE IF var.val = RatZero THEN NaN
    ELSE Surd(RatSub(x.val, m.val), RatDiv(RatOne, var.val))

\* unary minus
Negate(z) == IF IsNaN(z) THEN NaN ELSE Surd(RatNeg(z.coef), z.rad)

\* one Z_ column from its raw column
ZColumn(col, column) ==
    LET m   == ColMean(column)
        var == ColVar(column)
    IN  [i \in 1..Len(column) |->
            IF col \in InvertedCols
            THEN Negate(Standardize(column[i], m, var))
            ELSE Standardize(column[i], m, var)]

RECURSIVE AddZCols(_, _)
\* the for loop: a column that is not in df is skipped
AddZCols(frame, cols) ==
    IF cols = <<>> THEN frame
    ELSE LET col == Head(cols)
         IN  IF ~HasCol(frame, col) THEN AddZCols(frame, Tail(cols))
             ELSE AddZCols(SetCol(frame, ZName(col), ZColumn(col, frame[col])),
                           Tail(cols))

\* app_ca.py has one loop over the nine columns, cali.py a loop over the
\* first six and a second loop over the last three
FirstLoopCols(a) == IF a = "app_ca" THEN IndicatorCols ELSE SubSeq(IndicatorCols, 1, 6)

SecondLoopCols == SubSeq(IndicatorCols, 7, 9)

\* (mutant) the exclusion of fips 06003 moved before the z-scores
AddZScoresAfterExclusion ==
    /\ pc = "zscore"
    /\ LET kept == FilterRows(df, NotExcluded(df))
       IN  /\ df' = AddZCols(kept, FirstLoopCols(app))
           /\ zrows' = Index(kept)
    /\ pc' = IF app = "app_ca" THEN "uoi" ELSE "zscore2"
    /\ UNCHANGED <<app, csv, widgets, w, err>>

\* zrows records the rows the means and standard deviations were taken over
AddZScores ==
    /\ pc = "zscore"
    /\ df' = AddZCols(df, FirstLoopCols(app))
    /\ zrows' = Index(df)
    /\ pc' = IF app = "app_ca" THEN "uoi" ELSE "zscore2"
    /\ UNCHANGED <<app, csv, widgets, w, err>>

AddZScoresMore ==
    /\ pc = "zscore2"
    /\ df' = AddZCols(df, SecondLoopCols)
    /\ zrows' = zrows \cup Index(df)
    /\ pc' = "uoi"
    /\ UNCHANGED <<app, csv, widgets, w, err>>

(***************************************************************************)
(* UOI_custom.  The nine products are kept as the terms of the sum, term c *)
(* being a multiple of sqrt(rad) of column c; NaN in any product makes the *)
(* sum NaN.                                                                *)
(***************************************************************************)
\* Series * float
Times(z, wi) == IF IsNaN(z) THEN NaN ELSE Surd(RatMul(z.coef, wi), z.rad)

\* (mutant) a sum that skips NaN, as Series.sum or fillna(0) would
TotalSkipNaN(terms) ==
    [kind |-> "sum",
     terms |-> [c \in 1..Len(terms) |->
                   IF IsNaN(terms[c]) THEN Surd(RatZero, RatOne) ELSE terms[c]]]

\* the chain of + over the nine products
Total(terms) ==
    IF \E c \in 1..Len(terms) : IsNaN(terms[c]) THEN NaN
    ELSE [kind |-> "sum", terms |-> terms]

UOIColumn(frame, ws) ==
    [i \in Rows(frame) |->
        Total([c \in 1..NIndicators |->
                  Times(frame[ZName(IndicatorCols[c])][i], ws[c])])]

\* df["Z_..."] of a column that was never added raises KeyError
ComputeUOI ==
    /\ pc = "uoi"
    /\ IF \E c \in 1..NIndicators : ~HasCol(df, ZName(IndicatorCols[c]))
       THEN /\ pc' = "error"
            /\ err' = "KeyError"
            /\ df' = df
       ELSE /\ df' = SetCol(df, "UOI_custom", UOIColumn(df, w))
            /\ pc' = IF app = "app_ca" THEN "exclude" ELSE "done"
            /\ err' = err
    /\ UNCHANGED <<app, csv, widgets, w, zrows>>

\* app_ca.py 134: df = df[df["fips"] != "06003"]
ExcludeAlpine ==
    /\ pc = "exclude"
    /\ df' = FilterRows(df, NotExcluded(df))
    /\ pc' = "done"
    /\ UNCHANGED <<app, csv, widgets, w, err, zrows>>

(***************************************************************************)
(* Input tables of the identifier normalizer.                              *)
(***************************************************************************)
Apps == {"app_ca", "cali"}

Digits == {"0", "1", "6"}

\* digit strings of 1..n characters
RECURSIVE DigitStrings(_)
DigitStrings(n) ==
    IF n = 0 THEN {}
    ELSE LET shorter == DigitStrings(n - 1)
         IN  {<<d>> : d \in Digits}
             \cup shorter
             \cup {<<d>> \o s : d \in Digits, s \in shorter}

ProbeIds ==
    { <<"0","0","1">>, <<"6","0","0","1">>, <<"0","6","0","0","1">>,
      <<"1","3","0","0","1">>, <<"3">>, <<"0","6","0","0","3">> }

CountyNames ==
    { <<"A","l","a","m","e","d","a">>,
      <<" ","a","l","a","m","e","d","a"," ">>,
      <<"A","L","P","I","N","E">>,
      <<"O","r","a","n","g","e">>,
      <<"A","t","l","a","n","t","i","s">> }

NoWeights == <<>>

DefaultSliders == [i \in 1..NIndicators |-> Rat(1, 9)]

DefaultWidgets == [preset |-> "Even", sliders |-> DefaultSliders]

(***************************************************************************)
(* Input tables of the whole pipeline.                                     *)
(***************************************************************************)
Alpine == <<"A","L","P","I","N","E">>
Alameda == <<"A","l","a","m","e","d","a">>
Orange == <<" ","o","r","a","n","g","e"," ">>
Atlantis == <<"A","t","l","a","n","t","i","s">>

\* a cell a row may hold in a numeric column
RawCells == {NaN} \cup {Num(<<v, 1>>) : v \in 1..MaxRaw}

RawColumns(n) == [1..n -> RawCells]

\* the remaining indicator columns: all present and different in every row,
\* all empty, or not in the file at all
RestShapes == {"varying", "missing", "absent"}

RestColumn(shape, n) ==
    [i \in 1..n |-> IF shape = "varying" THEN Num(<<i, 1>>) ELSE NaN]

\* how the rows are identified: by county name only (all names known to the
\* boundary dataset, or the first one unknown), or by a fips or GEOID column
IdShapes == {"names", "unmatched", "fips", "GEOID"}

IdColumns(shape, n) ==
    LET known == SubSeq(<<Alpine, Alameda, Orange>>, 1, n)
        ids   == SubSeq(<< <<"6","0","0","3">>, <<"6","0","0","1">>,
                           <<"6","0","5","9">> >>, 1, n)
        base  == [c \in {"index", "County"} |->
                     IF c = "index" THEN [i \in 1..n |-> i]
                     ELSE IF shape = "unmatched"
                          THEN [i \in 1..n |-> IF i = 1 THEN Atlantis ELSE known[i]]
                          ELSE known]
    IN  IF shape \in {"fips", "GEOID"} THEN SetCol(base, shape, ids) ELSE base

\* a table of n rows
Table(n, idShape, income, unemployment, rest) ==
    LET cols == IF rest = "absent"
                THEN {IndicatorCols[1], IndicatorCols[3]}
                ELSE {IndicatorCols[c] : c \in 1..NIndicators}
        ids  == IdColumns(idShape, n)
    IN  [c \in DOMAIN ids \cup cols |->
            IF c \in DOMAIN ids THEN ids[c]
            ELSE IF c = IndicatorCols[1] THEN income
            ELSE IF c = IndicatorCols[3] THEN unemployment
            ELSE RestColumn(rest, n)]

Unit(k) == [i \in 1..NIndicators |-> IF i = k THEN RatOne ELSE RatZero]

AllZero == [i \in 1..NIndicators |-> RatZero]

\* slider positions: multiples of 1/SliderSteps in [0, 1]
SliderValues == {Rat(k, SliderSteps) : k \in 0..SliderSteps}

PresetWidgets ==
    {[preset |-> p, sliders |-> DefaultSliders] : p \in Presets \ {"Custom"}}

CustomWidgets(vectors) == {[preset |-> "Custom", sliders |-> v] : v \in vectors}

\* what every run starts from: the table as read, nothing computed yet
Start(a, table, wd) ==
    /\ app = a
    /\ csv = table
    /\ widgets = wd
    /\ df = table
    /\ pc = "fips"
    /\ w = NoWeights
    /\ err = "none"
    /\ zrows = {}

\* whole pipeline: every identification, every preset, one free column
Init ==
    \E n \in 1..MaxRecords :
      \E idShape \in IdShapes, income \in RawColumns(n), rest \in RestShapes :
        \E wd \in PresetWidgets
                  \cup CustomWidgets({DefaultSliders, AllZero, Unit(1), Unit(3)}) :
          \E a \in Apps :
            Start(a, Table(n, idShape, income, RestColumn(rest, n), rest), wd)

Next ==
    \/ EnsureFips
    \/ NormalizeFips
    \/ SelectPreset
    \/ NormalizeWeights
    \/ AddZScores
    \/ AddZScoresMore
    \/ ComputeUOI
    \/ ExcludeAlpine

Spec == Init /\ [][Next]_vars

\* scoring: a free income column, a free unemployment column without gaps,
\* single-indicator and even weights
InitScore ==
    \E n \in 1..MaxRecords :
      \E income \in RawColumns(n), unemployment \in [1..n -> RawCells \ {NaN}],
         rest \in RestShapes :
        \E wd \in {[preset |-> "Even", sliders |-> DefaultSliders]}
                  \cup CustomWidgets({Unit(1), Unit(3)}) :
          \E a \in Apps :
            Start(a, Table(n, "names", income, unemployment, rest), wd)

SpecScore == InitScore /\ [][Next]_vars

\* weight resolution: every slider vector
InitWeights ==
    \E wd \in PresetWidgets
              \cup CustomWidgets([1..NIndicators -> SliderValues] \cup {DefaultSliders}) :
      \E a \in Apps :
        Start(a, Table(1, "names", RestColumn("varying", 1),
                       RestColumn("varying", 1), "varying"), wd)

NextWeights == EnsureFips \/ NormalizeFips \/ SelectPreset \/ NormalizeWeights

SpecWeights == InitWeights /\ [][NextWeights]_vars

\* identifier normalizer: two rows, identified by name or by a GEOID or fips
\* column of digit strings
IdTable(idCol, first, second) ==
    [c \in {"index", "County"} \cup {idCol} |->
        IF c = "index" THEN <<1, 2>>
        ELSE IF c = idCol THEN <<first, second>>
        ELSE <<Alameda, Alameda>>]

InitIds ==
    \/ \E first \in CountyNames, second \in CountyNames, a \in Apps :
          Start(a, IdTable("County", first, second), DefaultWidgets)
    \/ \E first \in DigitStrings(MaxIdLen), second \in ProbeIds :
         \E idCol \in {"GEOID", "fips"}, a \in Apps :
            Start(a, IdTable(idCol, first, second), DefaultWidgets)

NextIds == EnsureFips \/ NormalizeFips

SpecIds == InitIds /\ [][NextIds]_vars

(***************************************************************************)
(* Properties.                                                             *)
(***************************************************************************)
RawTotal == RatSum(PresetWeights(widgets))

BeforeNormalization == pc \in {"fips", "repair", "weights", "normalize"}

\* C1: for every named preset and every custom vector of nine values in
\* [0,1] with a positive sum, normalization succeeds and leaves nine
\* non-negative weights that sum to 1.
C1_NormalizedWeightsSumToOne ==
    (RatLt(RatZero, RawTotal) /\ ~BeforeNormalization) =>
        /\ pc = "zscore"
        /\ Len(w) = NIndicators
        /\ \A i \in 1..Len(w) : w[i][1] >= 0 /\ w[i][2] > 0
        /\ RatSum(w) = RatOne

C1_Witness ==
    /\ pc = "zscore"
    /\ widgets.preset = "Custom"
    /\ RatSum(widgets.sliders) = <<3, 1>>
    /\ w[1] = <<1, 3>>

ZNames == {ZName(IndicatorCols[c]) : c \in 1..NIndicators}

\* C2: when the nine raw weights sum to 0 the run ends in an error at the
\* normalization step, and no Z_ column and no UOI_custom column is ever
\* computed.
C2_ZeroSumStopsRun ==
    (RawTotal = RatZero) =>
        /\ BeforeNormalization \/ (pc = "error" /\ err = "ZeroDivisionError")
        /\ DOMAIN df \cap (ZNames \cup {"UOI_custom"}) = {}

C2_Witness ==
    /\ pc = "error"
    /\ err = "ZeroDivisionError"
    /\ widgets.preset = "Custom"
    /\ \A i \in 1..NIndicators : widgets.sliders[i] = RatZero
    /\ HasCol(df, "fips")

\* C3: with no identifier column, a record whose county name matches no
\* boundary feature is absent from the scored output.
C3_UnmatchedExcluded ==
    (pc = "done" /\ FipsSource(app, csv) = "County") =>
        \A i \in Rows(csv) :
            fips_lookup(csv["County"][i]) = PyNone
                => csv["index"][i] \notin Index(df)

\* the identifier a row is resolved from
RawId(i) == csv[FipsSource(app, csv)][i]

\* a raw identifier padded on the left with "0" to five characters
Padded(raw) ==
    IF Len(raw) >= 5 THEN raw
    ELSE [k \in 1..5 |-> IF k <= 5 - Len(raw) THEN "0" ELSE raw[k - (5 - Len(raw))]]

Suffix(s) == SubSeq(s, Len(s) - 2, Len(s))

\* C4 (as claimed): two records that differ in their raw identifier, or in
\* their county name when resolved by name, end with different region ids.
C4_RegionIdUnique ==
    pc = "weights" =>
        \A i, j \in Rows(csv) :
            RawId(i) # RawId(j) => df["fips"][i] # df["fips"][j]

\* C4 (amended): two records whose identifiers, padded to five characters,
\* differ in their last three characters end with different region ids; so
\* do two records resolved by name to two different boundary features.
C4_DistinctSuffixDistinctId ==
    pc = "weights" =>
        \A i, j \in Rows(csv) :
            IF FipsSource(app, csv) = "County"
            THEN (/\ fips_lookup(RawId(i)) # PyNone
                  /\ fips_lookup(RawId(j)) # PyNone
                  /\ fips_lookup(RawId(i)) # fips_lookup(RawId(j)))
                     => df["fips"][i] # df["fips"][j]
            ELSE Suffix(Padded(RawId(i))) # Suffix(Padded(RawId(j)))
                     => df["fips"][i] # df["fips"][j]

C4_Witness ==
    /\ pc = "weights"
    /\ FipsSource(app, csv) = "fips"
    /\ RawId(1) = <<"1","1">>
    /\ RawId(2) = <<"0","0","1">>
    /\ df["fips"][1] = <<"0","6","0","1","1">>
    /\ df["fips"][2] = <<"0","6","0","0","1">>

\* C5: an explicit identifier of at most 5 digits normalizes to exactly 5
\* characters that start with "06" and end with the last 3 characters of the
\* zero-padded input; one that starts with "06" after padding is unchanged;
\* "001" normalizes to "06001".
C5_ExplicitIdNormalized ==
    (pc = "weights" /\ FipsSource(app, csv) # "County") =>
        \A i \in Rows(csv) :
            Len(RawId(i)) <= 5 =>
                LET out == df["fips"][i]
                    pad == Padded(RawId(i))
                IN  /\ Len(out) = 5
                    /\ SubSeq(out, 1, 2) = <<"0","6">>
                    /\ SubSeq(out, 3, 5) = SubSeq(pad, 3, 5)
                    /\ (SubSeq(pad, 1, 2) = <<"0","6">> => out = pad)
                    /\ (RawId(i) = <<"0","0","1">>
                            => out = <<"0","6","0","0","1">>)

C5_Witness ==
    /\ pc = "weights"
    /\ FipsSource(app, csv) = "GEOID"
    /\ RawId(1) = <<"1","6","0">>
    /\ RawId(2) = <<"0","0","1">>
    /\ df["fips"][1] = <<"0","6","1","6","0">>
    /\ df["fips"][2] = <<"0","6","0","0","1">>

\* two present values of the column differ
HasSpread(column) ==
    \E i, j \in 1..Len(column) :
        ~IsNaN(column[i]) /\ ~IsNaN(column[j]) /\ column[i] # column[j]

\* the sum and the sum of squares of the z-scores of a column, and the number
\* of rows that have one; all z-scores of a column share the same radicand
ZSumIsZero(zs) == RatSum([k \in 1..Len(zs) |-> zs[k].coef]) = RatZero

ZSquares(zs) ==
    RatSum([k \in 1..Len(zs) |-> RatMul(RatMul(zs[k].coef, zs[k].coef), zs[k].rad)])

\* C6 (as claimed): for an indicator with nonzero variance the z-scores have
\* mean 0 and their squares sum to the number of records N.
C6_PopulationStd ==
    pc = "uoi" =>
        \A c \in 1..NIndicators :
            LET col == IndicatorCols[c]
            IN  (HasCol(df, col) /\ HasSpread(df[col])) =>
                    LET zs == Present(df[ZName(col)])
                    IN  /\ Len(zs) = Len(Present(df[col]))
                        /\ ZSumIsZero(zs)
                        /\ ZSquares(zs) = <<Len(zs), 1>>

\* C6 (amended): for an indicator with nonzero variance the z-scores have
\* mean 0 and their squares sum to N - 1, N the number of records that have
\* a value: the divisor is the sample standard deviation.
C6_SampleStd ==
    pc = "uoi" =>
        \A c \in 1..NIndicators :
            LET col == IndicatorCols[c]
            IN  (HasCol(df, col) /\ HasSpread(df[col])) =>
                    LET zs == Present(df[ZName(col)])
                    IN  /\ Len(zs) = Len(Present(df[col]))
                        /\ ZSumIsZero(zs)
                        /\ ZSquares(zs) = <<Len(zs) - 1, 1>>

C6_Witness ==
    /\ pc = "uoi"
    /\ NRows(df) = 2
    /\ HasSpread(df[IndicatorCols[1]])
    /\ ZSquares(Present(df[ZName(IndicatorCols[1])])) = RatOne

\* the state right after UOI_custom was computed, no row removed yet
JustScored == HasCol(df, "UOI_custom") /\ (pc = "exclude" \/ (pc = "done" /\ app = "cali"))

ZOf(c, i) == df[ZName(IndicatorCols[c])][i]

UOIOf(i) == df["UOI_custom"][i]

RawLt(x, y) == ~IsNaN(x) /\ ~IsNaN(y) /\ RatLt(x.val, y.val)

\* u > v for two composite scores: term by term (the terms of one column are
\* multiples of the same positive square root) u is nowhere below v and
\* somewhere above it
Higher(u, v) ==
    /\ ~IsNaN(u)
    /\ ~IsNaN(v)
    /\ \A c \in 1..NIndicators :
          /\ u.terms[c].rad = v.terms[c].rad
          /\ ~RatLt(u.terms[c].coef, v.terms[c].coef)
    /\ \E c \in 1..NIndicators : RatLt(v.terms[c].coef, u.terms[c].coef)

Income(i) == csv[IndicatorCols[1]][i]

Unemployment(i) == csv[IndicatorCols[3]][i]

\* the table carries income and unemployment values only
OnlyIncomeAndUnemployment ==
    \A c \in (1..NIndicators) \ {1, 3} :
        ~HasCol(csv, IndicatorCols[c])
            \/ \A i \in Rows(csv) : IsNaN(csv[IndicatorCols[c]][i])

AllStandardized(i) == \A c \in 1..NIndicators : ~IsNaN(ZOf(c, i))

IsConstant(column) ==
    /\ column # <<>>
    /\ \A i \in 1..Len(column) : ~IsNaN(column[i]) /\ column[i] = column[1]

C10_ExclusionPrecedesStandardization ==
    pc = "done" => zrows = Index(df)

\* the rows of Alpine County; in the tables of Init these are the rows whose
\* fips is 06003, by name or by identifier column
AlpineRows ==
    {csv["index"][i] : i \in {k \in Rows(csv) : Upper(Strip(csv["County"][k])) = Alpine}}

\* C10 (amended): the means and standard deviations are taken over every
\* record of the input table; nothing is excluded before standardization.
\* app_ca.py removes the records with fips 06003 after standardization and
\* scoring and nothing else, cali.py removes nothing.
C10_StandardizedOverWholeTable ==
    pc = "done" =>
        /\ zrows = Index(csv)
        /\ Index(df) = IF app = "app_ca" THEN Index(csv) \ AlpineRows ELSE Index(csv)
        /\ HasCol(df, "UOI_custom")

C10_Witness ==
    /\ pc = "done"
    /\ app = "app_ca"
    /\ zrows = {1, 2}
    /\ Index(df) = {2}
    /\ ~IsNaN(UOIOf(1))

====
